---- MODULE Spec2Model ----
(***************************************************************************)
(* Double-entry ledger of the EM_SME backend: journal posting, voiding by  *)
(* reversal, financial-year locking, the trial balance and the general     *)
(* ledger, modelled from backend/app/services/accounting_service.py, the   *)
(* chart of accounts from backend/app/services/coa_service.py, and the     *)
(* tables declared in backend/app/models/accounting.py.                    *)
(*                                                                         *)
(* Amounts are integers counted in units of 1/SubUnits of the smallest     *)
(* storable amount (0.01): the service computes on arbitrary Decimals,     *)
(* while the journal_lines columns are NUMERIC(15, 2).                     *)
(***************************************************************************)
EXTENDS Integers, Sequences, FiniteSets, TLC

\* ------------------------------------------------------------------ bounds
MaxEntries == 3
MaxYearRows == 2
MaxPostsUnderLock == 1
MaxCustomAccounts == 1
MaxTenantPosts == 1
MaxLines == 3
MaxDate == 2
DaysPerYear == 1
NumWorkers == 2
SubUnits == 2

\* ------------------------------------------------------------- input sets
Orgs == {"t1", "t2"}
Users == {"u1", "u2", "v1"}
OrgOf(user) == IF user = "v1" THEN "t2" ELSE "t1"
NoId == 0
NoDate == 0
UnknownAccountId == 999
Dates == 1 .. MaxDate
YearOf(d) == (d - 1) \div DaysPerYear
Years == {YearOf(d) : d \in Dates}
Workers == 1 .. NumWorkers
EntryIds == 1 .. MaxEntries
Cent == SubUnits

\* The accounts table when the ledger is first used: two custom accounts of
\* t1 (ids 1 and 2) and one of t2 (id 3), which uses a code t1 uses too. An
\* account's id is its position in the table.
InitialAccounts ==
  << [organization_id |-> "t1", parent_id |-> NoId, code |-> "9001",
      name |-> "Till", account_type |-> "asset", sub_type |-> "bank_cash",
      is_system |-> FALSE, is_active |-> TRUE],
     [organization_id |-> "t1", parent_id |-> NoId, code |-> "9002",
      name |-> "Sales", account_type |-> "income", sub_type |-> "revenue",
      is_system |-> FALSE, is_active |-> TRUE],
     [organization_id |-> "t2", parent_id |-> NoId, code |-> "9001",
      name |-> "Sales", account_type |-> "income", sub_type |-> "revenue",
      is_system |-> FALSE, is_active |-> TRUE] >>

\* The line specs a caller passes, as (account, debit, credit): a plain entry,
\* amounts below the smallest storable amount, a negative amount, an empty line,
\* a line on another tenant's account and a line on an id no account has.
LineSpecs ==
  << [account_id |-> 1, debit |-> Cent, credit |-> 0],
     [account_id |-> 2, debit |-> 0, credit |-> Cent],
     [account_id |-> 2, debit |-> 0, credit |-> 1],
     [account_id |-> 1, debit |-> 0 - 1, credit |-> 0],
     [account_id |-> 1, debit |-> 0, credit |-> 0],
     [account_id |-> 3, debit |-> 0, credit |-> Cent],
     [account_id |-> UnknownAccountId, debit |-> Cent, credit |-> 0] >>

\* Requests of up to MaxLines lines. No check and no sum of the service depends
\* on the order of the lines, so each request is listed once, in the order of
\* LineSpecs.
Requests ==
  UNION { { [i \in 1 .. k |-> LineSpecs[idx[i]]] :
              idx \in { f \in [1 .. k -> DOMAIN LineSpecs] :
                          \A i \in 1 .. k - 1 : f[i] <= f[i + 1] } } :
          k \in 0 .. MaxLines }

VARIABLES accounts, entries, financial_years, workers, today, response

vars == <<accounts, entries, financial_years, workers, today, response>>

AccountIds == DOMAIN accounts

\* ------------------------------------------------------------ pure helpers
LineSpecOK(debit, credit) ==
  ~((debit > 0 /\ credit > 0) \/ (debit = 0 /\ credit = 0))

RECURSIVE SumDebit(_)
SumDebit(lines) ==
  IF lines = <<>> THEN 0 ELSE Head(lines).debit + SumDebit(Tail(lines))

RECURSIVE SumCredit(_)
SumCredit(lines) ==
  IF lines = <<>> THEN 0 ELSE Head(lines).credit + SumCredit(Tail(lines))

\* NUMERIC(15, 2): a value with more fractional digits is rounded to the
\* column's scale, half away from zero.
Quantize(x) ==
  LET a == IF x < 0 THEN 0 - x ELSE x
      q == a \div SubUnits
      r == a % SubUnits
      m == IF 2 * r >= SubUnits THEN (q + 1) * SubUnits ELSE q * SubUnits
  IN IF x < 0 THEN 0 - m ELSE m

JournalLine(spec) ==
  [account_id |-> spec.account_id,
   debit |-> Quantize(spec.debit),
   credit |-> Quantize(spec.credit)]

ck_journal_lines_debit_or_credit(line) ==
  (line.debit > 0 /\ line.credit = 0) \/ (line.credit > 0 /\ line.debit = 0)

\* variant: the query filters on is_locked == False
assert_year_open_filters_unlocked(org, year) ==
  ~ \E fy \in financial_years :
      /\ fy.organization_id = org
      /\ fy.year = year
      /\ ~fy.is_locked

\* variant: the query does not filter on the organisation
assert_year_open_of_any_organization(org, year) ==
  ~ \E fy \in financial_years :
      /\ fy.year = year
      /\ fy.is_locked

assert_year_open(org, year) ==
  ~ \E fy \in financial_years :
      /\ fy.organization_id = org
      /\ fy.year = year
      /\ fy.is_locked

\* variant: the query does not filter on is_active
validate_accounts_without_active_filter(org, lines) ==
  LET account_ids == {lines[i].account_id : i \in DOMAIN lines}
      found == {a \in account_ids \cap AccountIds : accounts[a].organization_id = org}
  IN account_ids \ found

validate_accounts(org, lines) ==
  LET account_ids == {lines[i].account_id : i \in DOMAIN lines}
      found == {a \in account_ids \cap AccountIds :
                  /\ accounts[a].organization_id = org
                  /\ accounts[a].is_active}
  IN account_ids \ found

\* ------------------------------------------------------------------- post
\* variant: the zero-amount check is missing
validate_balance_without_zero_check(total_debit, total_credit) ==
  IF total_debit # total_credit THEN "Unbalanced" ELSE "ok"

\* step 1 of post_journal_entry: "ok" or the error it raises
validate_balance(total_debit, total_credit) ==
  IF total_debit # total_credit THEN "Unbalanced"
  ELSE IF total_debit = 0 THEN "EmptyEntry"
  ELSE "ok"

\* variant: status is left to the column default
JournalEntry_with_default_status(org, entry_date, source, source_id, fiscal_year, lines) ==
  [organization_id |-> org,
   entry_date |-> entry_date,
   source |-> source,
   source_id |-> source_id,
   status |-> "draft",
   reversed_by |-> NoId,
   fiscal_year |-> fiscal_year,
   lines |-> lines]

JournalEntry(org, entry_date, source, source_id, fiscal_year, lines) ==
  [organization_id |-> org,
   entry_date |-> entry_date,
   source |-> source,
   source_id |-> source_id,
   status |-> "posted",
   reversed_by |-> NoId,
   fiscal_year |-> fiscal_year,
   lines |-> lines]

\* variant: the accounts are validated before the year lock is checked
post_journal_entry_validates_accounts_first(org, entry_date, lines, source, source_id) ==
  LET total_debit == SumDebit(lines)
      total_credit == SumCredit(lines)
      fiscal_year == YearOf(entry_date)
      stored == [i \in DOMAIN lines |-> JournalLine(lines[i])]
      entry == JournalEntry(org, entry_date, source, source_id, fiscal_year, stored)
  IN IF validate_balance(total_debit, total_credit) # "ok"
       THEN [result |-> validate_balance(total_debit, total_credit),
             missing |-> {}, entries |-> entries]
     ELSE IF validate_accounts(org, lines) # {}
       THEN [result |-> "UnknownAccount", missing |-> validate_accounts(org, lines),
             entries |-> entries]
     ELSE IF ~assert_year_open(org, fiscal_year)
       THEN [result |-> "PeriodLocked", missing |-> {}, entries |-> entries]
     ELSE IF \E i \in DOMAIN stored : ~ck_journal_lines_debit_or_credit(stored[i])
       THEN [result |-> "StorageError", missing |-> {}, entries |-> entries]
     ELSE [result |-> "ok", missing |-> {}, entries |-> Append(entries, entry)]

\* result is "ok" or the error raised; missing is the set of ids the
\* UnknownAccount message lists
post_journal_entry(org, entry_date, lines, source, source_id) ==
  LET total_debit == SumDebit(lines)
      total_credit == SumCredit(lines)
      fiscal_year == YearOf(entry_date)
      stored == [i \in DOMAIN lines |-> JournalLine(lines[i])]
      entry == JournalEntry(org, entry_date, source, source_id, fiscal_year, stored)
  IN IF validate_balance(total_debit, total_credit) # "ok"
       THEN [result |-> validate_balance(total_debit, total_credit),
             missing |-> {}, entries |-> entries]
     ELSE IF ~assert_year_open(org, fiscal_year)
       THEN [result |-> "PeriodLocked", missing |-> {}, entries |-> entries]
     ELSE IF validate_accounts(org, lines) # {}
       THEN [result |-> "UnknownAccount", missing |-> validate_accounts(org, lines),
             entries |-> entries]
     ELSE IF \E i \in DOMAIN stored : ~ck_journal_lines_debit_or_credit(stored[i])
       THEN [result |-> "StorageError", missing |-> {}, entries |-> entries]
     ELSE [result |-> "ok", missing |-> {}, entries |-> Append(entries, entry)]

Response(op, result) == [op |-> op, result |-> result]

Idle == [pc |-> "idle"]

Init ==
  /\ accounts = InitialAccounts
  /\ entries = <<>>
  /\ financial_years = {}
  /\ workers = [w \in Workers |-> Idle]
  /\ today = 1
  /\ response = Response("none", "ok")

create_journal_entry(org, entry_date, raw) ==
  LET year == YearOf(entry_date)
  IN /\ Len(entries) < MaxEntries
     /\ IF \E i \in DOMAIN raw : ~LineSpecOK(raw[i].debit, raw[i].credit)
          THEN /\ entries' = entries
               /\ response' = Response("post", "MalformedLine")
          ELSE LET r == post_journal_entry(org, entry_date, raw, "manual", NoId)
               IN /\ entries' = r.entries
                  /\ response' = Response("post", r.result)
     /\ UNCHANGED <<accounts, financial_years, workers, today>>

\* create_journal_entry as the steps of one request among others:
\* the LineSpec constructors, the balance check and the SELECT of
\* _assert_year_open
PostBegin(w, org, entry_date, raw) ==
  LET total_debit == SumDebit(raw)
      total_credit == SumCredit(raw)
  IN /\ workers[w].pc = "idle"
     /\ IF \E i \in DOMAIN raw : ~LineSpecOK(raw[i].debit, raw[i].credit)
          THEN /\ response' = Response("post", "MalformedLine")
               /\ UNCHANGED workers
        ELSE IF validate_balance(total_debit, total_credit) # "ok"
          THEN /\ response' = Response("post", validate_balance(total_debit, total_credit))
               /\ UNCHANGED workers
        ELSE IF ~assert_year_open(org, YearOf(entry_date))
          THEN /\ response' = Response("post", "PeriodLocked")
               /\ UNCHANGED workers
        ELSE /\ workers' = [workers EXCEPT ![w] =
                  [pc |-> "post_write", org |-> org, entry_date |-> entry_date,
                   lines |-> raw]]
             /\ response' = Response("post", "year_open")
     /\ UNCHANGED <<accounts, entries, financial_years, today>>

\* the rest of the request: _validate_accounts, the INSERTs and the commit
PostCommit(w) ==
  LET me == workers[w]
      stored == [i \in DOMAIN me.lines |-> JournalLine(me.lines[i])]
      entry == JournalEntry(me.org, me.entry_date, "manual", NoId,
                            YearOf(me.entry_date), stored)
  IN /\ me.pc = "post_write"
     /\ workers' = [workers EXCEPT ![w] = Idle]
     /\ IF validate_accounts(me.org, me.lines) # {}
          THEN /\ entries' = entries
               /\ response' = Response("post", "UnknownAccount")
        ELSE IF \E i \in DOMAIN stored : ~ck_journal_lines_debit_or_credit(stored[i])
          THEN /\ entries' = entries
               /\ response' = Response("post", "StorageError")
        ELSE /\ Len(entries) < MaxEntries
             /\ entries' = Append(entries, entry)
             /\ response' = Response("post", "ok")
     /\ UNCHANGED <<accounts, financial_years, today>>

\* ------------------------------------------------------------------- void
\* variant: the status check is missing
load_for_void_without_status_check(org, entry_id) ==
  IF entry_id \notin DOMAIN entries THEN "NotFound"
  ELSE IF entries[entry_id].organization_id # org THEN "NotFound"
  ELSE "ok"

\* the lookup and the status check of void_entry: "ok" or the error it raises
load_for_void(org, entry_id) ==
  IF entry_id \notin DOMAIN entries THEN "NotFound"
  ELSE IF entries[entry_id].organization_id # org THEN "NotFound"
  ELSE IF entries[entry_id].status # "posted" THEN "InvalidState"
  ELSE "ok"

\* variant: debit and credit are copied, not swapped
reversal_lines_not_swapped(original) ==
  [i \in DOMAIN original.lines |->
     [account_id |-> original.lines[i].account_id,
      debit |-> original.lines[i].debit,
      credit |-> original.lines[i].credit]]

reversal_lines(original) ==
  [i \in DOMAIN original.lines |->
     [account_id |-> original.lines[i].account_id,
      debit |-> original.lines[i].credit,
      credit |-> original.lines[i].debit]]

\* variant: a rejected reversal still marks the original voided
VoidBegin_marks_on_rejection(w, user, entry_id) ==
  LET org == OrgOf(user)
  IN /\ workers[w].pc = "idle"
     /\ IF load_for_void(org, entry_id) # "ok"
          THEN /\ response' = Response("void", load_for_void(org, entry_id))
               /\ UNCHANGED <<entries, workers>>
        ELSE LET lines == reversal_lines(entries[entry_id])
                 r == post_journal_entry(org, today, lines, "void", entry_id)
             IN IF r.result # "ok"
                  THEN /\ response' = Response("void", r.result)
                       /\ entries' = [entries EXCEPT ![entry_id].status = "voided"]
                       /\ UNCHANGED workers
                  ELSE /\ Len(entries) < MaxEntries
                       /\ entries' = r.entries
                       /\ workers' = [workers EXCEPT ![w] =
                            [pc |-> "void_mark", org |-> org,
                             original |-> entry_id,
                             reversal |-> Len(r.entries)]]
                       /\ response' = Response("void", "reversal_posted")
     /\ UNCHANGED <<accounts, financial_years, today>>

\* void_entry up to and including the commit made by the reversal's post
VoidBegin(w, user, entry_id) ==
  LET org == OrgOf(user)
  IN /\ workers[w].pc = "idle"
     /\ IF load_for_void(org, entry_id) # "ok"
          THEN /\ response' = Response("void", load_for_void(org, entry_id))
               /\ UNCHANGED <<entries, workers>>
        ELSE LET lines == reversal_lines(entries[entry_id])
             IN IF \E i \in DOMAIN lines : ~LineSpecOK(lines[i].debit, lines[i].credit)
                  THEN /\ response' = Response("void", "MalformedLine")
                       /\ UNCHANGED <<entries, workers>>
                  ELSE LET r == post_journal_entry(org, today, lines, "void", entry_id)
                       IN IF r.result # "ok"
                            THEN /\ response' = Response("void", r.result)
                                 /\ UNCHANGED <<entries, workers>>
                            ELSE /\ Len(entries) < MaxEntries
                                 /\ entries' = r.entries
                                 /\ workers' = [workers EXCEPT ![w] =
                                      [pc |-> "void_mark", org |-> org,
                                       original |-> entry_id,
                                       reversal |-> Len(r.entries)]]
                                 /\ response' = Response("void", "reversal_posted")
     /\ UNCHANGED <<accounts, financial_years, today>>

\* variant: the original is emptied when it is marked
VoidFinish_clears_original_lines(w) ==
  /\ workers[w].pc = "void_mark"
  /\ entries' = [entries EXCEPT
                   ![workers[w].original].status = "voided",
                   ![workers[w].original].reversed_by = workers[w].reversal,
                   ![workers[w].original].lines = <<>>]
  /\ workers' = [workers EXCEPT ![w] = Idle]
  /\ response' = Response("void", "ok")
  /\ UNCHANGED <<accounts, financial_years, today>>

\* variant: reversed_by is not set when the original is marked
VoidFinish_without_reversed_by(w) ==
  /\ workers[w].pc = "void_mark"
  /\ entries' = [entries EXCEPT ![workers[w].original].status = "voided"]
  /\ workers' = [workers EXCEPT ![w] = Idle]
  /\ response' = Response("void", "ok")
  /\ UNCHANGED <<accounts, financial_years, today>>

\* void_entry from "Mark original as voided" to its commit
VoidFinish(w) ==
  /\ workers[w].pc = "void_mark"
  /\ entries' = [entries EXCEPT
                   ![workers[w].original].status = "voided",
                   ![workers[w].original].reversed_by = workers[w].reversal]
  /\ workers' = [workers EXCEPT ![w] = Idle]
  /\ response' = Response("void", "ok")
  /\ UNCHANGED <<accounts, financial_years, today>>

\* the request dies between the two commits (connection lost, process killed):
\* the second transaction never commits
VoidAbort(w) ==
  /\ workers[w].pc = "void_mark"
  /\ workers' = [workers EXCEPT ![w] = Idle]
  /\ response' = Response("void", "StorageError")
  /\ UNCHANGED <<accounts, entries, financial_years, today>>

\* ------------------------------------------------------------------- lock
year_rows(org, year) ==
  {fy \in financial_years : fy.organization_id = org /\ fy.year = year}

\* variant: is_locked is read from a row of another year of the organisation
already_locked_reads_other_year(org, year) ==
  \E fy \in financial_years :
    fy.organization_id = org /\ fy.year # year /\ fy.is_locked

already_locked(org, year) == \E fy \in year_rows(org, year) : fy.is_locked

\* lock_financial_year: the SELECT and the check of is_locked
LockBegin(w, user, year) ==
  LET org == OrgOf(user)
      rows == year_rows(org, year)
  IN /\ workers[w].pc = "idle"
     /\ IF already_locked(org, year)
          THEN /\ response' = Response("lock", "AlreadyLocked")
               /\ UNCHANGED workers
          ELSE /\ workers' = [workers EXCEPT ![w] =
                    [pc |-> "lock_commit", org |-> org, year |-> year,
                     found |-> rows # {}, locked_by |-> user]]
               /\ response' = Response("lock", "selected")
     /\ UNCHANGED <<accounts, entries, financial_years, today>>

uq_financial_years_org_year(rows) ==
  \A x, y \in rows :
    (x.organization_id = y.organization_id /\ x.year = y.year) => x = y

\* lock_financial_year: the assignments and the commit (INSERT or UPDATE)
LockCommit(w) ==
  LET me == workers[w]
      locked == [organization_id |-> me.org, year |-> me.year, is_locked |-> TRUE,
                 locked_by |-> me.locked_by, locked_at |-> today]
      others == {fy \in financial_years :
                   ~(fy.organization_id = me.org /\ fy.year = me.year)}
  IN /\ me.pc = "lock_commit"
     /\ workers' = [workers EXCEPT ![w] = Idle]
     /\ IF me.found
          THEN /\ financial_years' = others \cup {locked}
               /\ response' = Response("lock", "ok")
          ELSE IF \E fy \in financial_years :
                    fy.organization_id = me.org /\ fy.year = me.year
            THEN /\ financial_years' = financial_years
                 /\ response' = Response("lock", "StorageError")
            ELSE /\ Cardinality(financial_years) < MaxYearRows
                 /\ financial_years' = financial_years \cup {locked}
                 /\ response' = Response("lock", "ok")
     /\ UNCHANGED <<accounts, entries, today>>

Tick ==
  /\ today < MaxDate
  /\ today' = today + 1
  /\ response' = Response("tick", "ok")
  /\ UNCHANGED <<accounts, entries, financial_years, workers>>

\* ------------------------------------------------------- chart of accounts
\* parent_code of a root of the catalogue (None)
NoCode == ""

DEFAULT_ACCOUNTS ==
  << [code |-> "1000", name |-> "Assets", type |-> "asset", sub_type |-> "current_asset",
      is_system |-> TRUE, parent_code |-> ""],
     [code |-> "1010", name |-> "Cash in Hand", type |-> "asset", sub_type |-> "bank_cash",
      is_system |-> TRUE, parent_code |-> "1000"],
     [code |-> "1020", name |-> "Bank Accounts", type |-> "asset", sub_type |-> "bank_cash",
      is_system |-> TRUE, parent_code |-> "1000"],
     [code |-> "1100", name |-> "Accounts Receivable", type |-> "asset", sub_type |-> "current_asset",
      is_system |-> TRUE, parent_code |-> "1000"],
     [code |-> "1200", name |-> "Inventory", type |-> "asset", sub_type |-> "current_asset",
      is_system |-> TRUE, parent_code |-> "1000"],
     [code |-> "1300", name |-> "Prepaid Expenses", type |-> "asset", sub_type |-> "current_asset",
      is_system |-> TRUE, parent_code |-> "1000"],
     [code |-> "1500", name |-> "Fixed Assets", type |-> "asset", sub_type |-> "non_current_asset",
      is_system |-> TRUE, parent_code |-> "1000"],
     [code |-> "1510", name |-> "Accumulated Depreciation", type |-> "asset", sub_type |-> "non_current_asset",
      is_system |-> TRUE, parent_code |-> "1500"],
     [code |-> "2000", name |-> "Liabilities", type |-> "liability", sub_type |-> "current_liability",
      is_system |-> TRUE, parent_code |-> ""],
     [code |-> "2010", name |-> "Accounts Payable", type |-> "liability", sub_type |-> "current_liability",
      is_system |-> TRUE, parent_code |-> "2000"],
     [code |-> "2100", name |-> "GST Payable", type |-> "liability", sub_type |-> "current_liability",
      is_system |-> TRUE, parent_code |-> "2000"],
     [code |-> "2110", name |-> "CGST Payable", type |-> "liability", sub_type |-> "current_liability",
      is_system |-> TRUE, parent_code |-> "2100"],
     [code |-> "2120", name |-> "SGST Payable", type |-> "liability", sub_type |-> "current_liability",
      is_system |-> TRUE, parent_code |-> "2100"],
     [code |-> "2130", name |-> "IGST Payable", type |-> "liability", sub_type |-> "current_liability",
      is_system |-> TRUE, parent_code |-> "2100"],
     [code |-> "2200", name |-> "Short-term Borrowings", type |-> "liability", sub_type |-> "current_liability",
      is_system |-> TRUE, parent_code |-> "2000"],
     [code |-> "2500", name |-> "Long-term Borrowings", type |-> "liability", sub_type |-> "non_current_liability",
      is_system |-> TRUE, parent_code |-> "2000"],
     [code |-> "3000", name |-> "Equity", type |-> "equity", sub_type |-> "equity",
      is_system |-> TRUE, parent_code |-> ""],
     [code |-> "3010", name |-> "Share Capital", type |-> "equity", sub_type |-> "equity",
      is_system |-> TRUE, parent_code |-> "3000"],
     [code |-> "3020", name |-> "Retained Earnings", type |-> "equity", sub_type |-> "equity",
      is_system |-> TRUE, parent_code |-> "3000"],
     [code |-> "4000", name |-> "Revenue from Operations", type |-> "income", sub_type |-> "revenue",
      is_system |-> TRUE, parent_code |-> ""],
     [code |-> "4010", name |-> "Service Revenue", type |-> "income", sub_type |-> "revenue",
      is_system |-> TRUE, parent_code |-> "4000"],
     [code |-> "4020", name |-> "Product Sales", type |-> "income", sub_type |-> "revenue",
      is_system |-> TRUE, parent_code |-> "4000"],
     [code |-> "4100", name |-> "Other Income", type |-> "income", sub_type |-> "other_income",
      is_system |-> TRUE, parent_code |-> "4000"],
     [code |-> "5000", name |-> "Expenses", type |-> "expense", sub_type |-> "other_expense",
      is_system |-> TRUE, parent_code |-> ""],
     [code |-> "5010", name |-> "Cost of Goods Sold", type |-> "expense", sub_type |-> "cogs",
      is_system |-> TRUE, parent_code |-> "5000"],
     [code |-> "5100", name |-> "Employee Benefit Expense", type |-> "expense", sub_type |-> "employee_expense",
      is_system |-> TRUE, parent_code |-> "5000"],
     [code |-> "5200", name |-> "Depreciation & Amortisation", type |-> "expense", sub_type |-> "depreciation",
      is_system |-> TRUE, parent_code |-> "5000"],
     [code |-> "5300", name |-> "Finance Costs", type |-> "expense", sub_type |-> "finance_cost",
      is_system |-> TRUE, parent_code |-> "5000"],
     [code |-> "5400", name |-> "Other Expenses", type |-> "expense", sub_type |-> "other_expense",
      is_system |-> TRUE, parent_code |-> "5000"],
     [code |-> "5410", name |-> "Rent", type |-> "expense", sub_type |-> "other_expense",
      is_system |-> TRUE, parent_code |-> "5400"],
     [code |-> "5420", name |-> "Utilities", type |-> "expense", sub_type |-> "other_expense",
      is_system |-> TRUE, parent_code |-> "5400"],
     [code |-> "5430", name |-> "Marketing & Advertising", type |-> "expense", sub_type |-> "other_expense",
      is_system |-> TRUE, parent_code |-> "5400"],
     [code |-> "5440", name |-> "Travel & Conveyance", type |-> "expense", sub_type |-> "other_expense",
      is_system |-> TRUE, parent_code |-> "5400"] >>

Account(org, parent_id, code, name, account_type, sub_type, is_system) ==
  [organization_id |-> org, parent_id |-> parent_id, code |-> code,
   name |-> name, account_type |-> account_type, sub_type |-> sub_type,
   is_system |-> is_system, is_active |-> TRUE]

uq_accounts_org_code(table) ==
  \A x, y \in DOMAIN table :
    (table[x].organization_id = table[y].organization_id
       /\ table[x].code = table[y].code) => x = y

\* variant: only the codes of active accounts are fetched
existing_codes_of_active_accounts(table, org) ==
  {table[a].code : a \in {x \in DOMAIN table : /\ table[x].organization_id = org
                                               /\ table[x].is_active}}

\* select(Account.code).where(Account.organization_id == self.org_id)
existing_codes(table, org) ==
  {table[a].code : a \in {x \in DOMAIN table : table[x].organization_id = org}}

\* select(Account.id) by (organisation, code): the ids found
ids_by_code(table, org, code) ==
  {a \in DOMAIN table : table[a].organization_id = org /\ table[a].code = code}

\* The two passes of seed_default_accounts over the catalogue, from entry k on.
\* st holds the table with the rows flushed so far and code_to_id; ok turns
\* false when a statement raises: a flush that violates uq_accounts_org_code,
\* or scalar_one() finding no row.
RECURSIVE seed_roots(_, _, _, _)
seed_roots(st, org, existing, k) ==
  IF k > Len(DEFAULT_ACCOUNTS) THEN st
  ELSE LET spec == DEFAULT_ACCOUNTS[k]
           found == ids_by_code(st.table, org, spec.code)
       IN IF spec.parent_code = NoCode /\ spec.code \notin existing
            THEN IF found # {} THEN [st EXCEPT !.ok = FALSE]
                 ELSE seed_roots(
                        [table |-> Append(st.table,
                                     Account(org, NoId, spec.code, spec.name, spec.type,
                                             spec.sub_type, spec.is_system)),
                         code_to_id |-> (spec.code :> Len(st.table) + 1) @@ st.code_to_id,
                         ok |-> TRUE],
                        org, existing, k + 1)
          ELSE IF spec.parent_code = NoCode
            THEN IF found = {} THEN [st EXCEPT !.ok = FALSE]
                 ELSE seed_roots(
                        [table |-> st.table,
                         code_to_id |-> (spec.code :> CHOOSE a \in found : TRUE)
                                        @@ st.code_to_id,
                         ok |-> TRUE],
                        org, existing, k + 1)
          ELSE seed_roots(st, org, existing, k + 1)

\* variant: the parent is fetched among the active accounts only
resolve_parent_among_active(st, org, parent_code) ==
  LET parents == {a \in ids_by_code(st.table, org, parent_code) : st.table[a].is_active}
  IN IF parents = {} THEN NoId ELSE CHOOSE a \in parents : TRUE

\* "Ensure parent id is resolved": code_to_id, else the row of the table, else
\* None
resolve_parent(st, org, parent_code) ==
  LET parents == ids_by_code(st.table, org, parent_code)
  IN IF parent_code \in DOMAIN st.code_to_id THEN st.code_to_id[parent_code]
     ELSE IF parents = {} THEN NoId
     ELSE CHOOSE a \in parents : TRUE

RECURSIVE seed_children(_, _, _, _)
seed_children(st, org, existing, k) ==
  IF k > Len(DEFAULT_ACCOUNTS) THEN st
  ELSE LET spec == DEFAULT_ACCOUNTS[k]
           found == ids_by_code(st.table, org, spec.code)
           parent_id == resolve_parent(st, org, spec.parent_code)
       IN IF spec.parent_code # NoCode /\ spec.code \notin existing
            THEN IF found # {} THEN [st EXCEPT !.ok = FALSE]
                 ELSE seed_children(
                        [table |-> Append(st.table,
                                     Account(org, parent_id, spec.code, spec.name,
                                             spec.type, spec.sub_type, spec.is_system)),
                         code_to_id |-> (spec.code :> Len(st.table) + 1) @@ st.code_to_id,
                         ok |-> TRUE],
                        org, existing, k + 1)
          ELSE IF spec.parent_code # NoCode
            THEN IF found = {} THEN [st EXCEPT !.ok = FALSE]
                 ELSE seed_children(
                        [table |-> st.table,
                         code_to_id |-> (spec.code :> CHOOSE a \in found : TRUE)
                                        @@ st.code_to_id,
                         ok |-> TRUE],
                        org, existing, k + 1)
          ELSE seed_children(st, org, existing, k + 1)

\* seed_default_accounts up to its commit: the table it has flushed, and
\* whether every statement succeeded
seeded_accounts(table, org) ==
  LET existing == existing_codes(table, org)
      roots == seed_roots([table |-> table, code_to_id |-> <<>>, ok |-> TRUE],
                          org, existing, 1)
  IN IF roots.ok THEN seed_children(roots, org, existing, 1) ELSE roots

\* the whole call is one transaction: a statement that raises leaves nothing
seed_default_accounts(org) ==
  /\ IF seeded_accounts(accounts, org).ok
       THEN /\ accounts' = seeded_accounts(accounts, org).table
            /\ response' = Response("seed", "ok")
       ELSE /\ accounts' = accounts
            /\ response' = Response("seed", "StorageError")
  /\ UNCHANGED <<entries, financial_years, workers, today>>

create_account(org, code, name, account_type, sub_type, parent_id) ==
  LET acct == Account(org, parent_id, code, name, account_type, sub_type, FALSE)
  IN /\ IF /\ parent_id # NoId
           /\ (parent_id \notin AccountIds \/ accounts[parent_id].organization_id # org)
          THEN /\ accounts' = accounts
               /\ response' = Response("create_account", "NotFound")
        ELSE IF ~uq_accounts_org_code(Append(accounts, acct))
          THEN /\ accounts' = accounts
               /\ response' = Response("create_account", "StorageError")
        ELSE /\ accounts' = Append(accounts, acct)
             /\ response' = Response("create_account", "ok")
     /\ UNCHANGED <<entries, financial_years, workers, today>>

\* variant: the is_system check is missing
deactivate_account_without_system_check(org, account_id) ==
  /\ IF account_id \notin AccountIds \/ accounts[account_id].organization_id # org
       THEN /\ accounts' = accounts
            /\ response' = Response("deactivate", "NotFound")
     ELSE /\ accounts' = [accounts EXCEPT ![account_id].is_active = FALSE]
          /\ response' = Response("deactivate", "ok")
  /\ UNCHANGED <<entries, financial_years, workers, today>>

deactivate_account(org, account_id) ==
  /\ IF account_id \notin AccountIds \/ accounts[account_id].organization_id # org
       THEN /\ accounts' = accounts
            /\ response' = Response("deactivate", "NotFound")
     ELSE IF accounts[account_id].is_system
       THEN /\ accounts' = accounts
            /\ response' = Response("deactivate", "SystemAccount")
     ELSE /\ accounts' = [accounts EXCEPT ![account_id].is_active = FALSE]
          /\ response' = Response("deactivate", "ok")
  /\ UNCHANGED <<entries, financial_years, workers, today>>

\* the codes and parents callers of create_account pass: codes of the catalogue
\* (a root and a parent below it) and a code in use; no parent, an account of
\* t1 and one of t2
CoACodes == {"1000", "1500", "9001"}
CoAParents == {NoId, 1, 3}

CustomAccounts == {a \in AccountIds : ~accounts[a].is_system}

\* ------------------------------------------------------------ trial balance
RECURSIVE SumOver(_, _, _)
SumOver(S, col, acc) ==
  IF S = {} THEN acc
  ELSE LET x == CHOOSE y \in S : TRUE
       IN SumOver(S \ {x}, col, acc + col[x])

\* accounts LEFT JOIN journal_lines ON account LEFT JOIN journal_entries ON
\* (entry of the line, posted, dated <= as_of_date, of the organisation),
\* grouped by account: one row per line of the account, whose entry columns
\* are NULL (NoId) when the entry fails the ON condition; SUM runs over the
\* line columns of every row of the group.
\* The query and the totals of get_trial_balance, over the accounts `table`
\* and the journal `store`.
trial_balance_over(table, store, org, as_of_date) ==
  LET rows == [a \in DOMAIN table |->
                 { r \in UNION { { [e |-> e, i |-> i,
                                    entry |-> IF /\ store[e].status = "posted"
                                                 /\ store[e].entry_date <= as_of_date
                                                 /\ store[e].organization_id = org
                                              THEN e ELSE NoId] :
                                    i \in DOMAIN store[e].lines } :
                                  e \in DOMAIN store } :
                   store[r.e].lines[r.i].account_id = a }]
      active == {a \in DOMAIN table : table[a].organization_id = org
                                      /\ table[a].is_active}
      total_debit == [a \in active |->
                        SumOver(rows[a], [r \in rows[a] |-> store[r.e].lines[r.i].debit], 0)]
      total_credit == [a \in active |->
                        SumOver(rows[a], [r \in rows[a] |-> store[r.e].lines[r.i].credit], 0)]
      total_dr == SumOver(active, total_debit, 0)
      total_cr == SumOver(active, total_credit, 0)
  IN [total_debit |-> total_debit,
      total_credit |-> total_credit,
      net_balance |-> [a \in active |-> total_debit[a] - total_credit[a]],
      grand_total_debit |-> total_dr,
      grand_total_credit |-> total_cr,
      is_balanced |-> total_dr = total_cr]

trial_balance_query(store, org, as_of_date) ==
  trial_balance_over(accounts, store, org, as_of_date)

get_trial_balance(org, as_of_date) == trial_balance_query(entries, org, as_of_date)

\* ----------------------------------------------------------- general ledger
\* ORDER BY entry_date, created_at: entries in the order they were created;
\* the lines of one entry share both keys, so their order is the database's
\* choice (lines_desc tells which of two it takes)
ledger_before(store, x, y, lines_desc) ==
  \/ store[x.e].entry_date < store[y.e].entry_date
  \/ store[x.e].entry_date = store[y.e].entry_date /\ x.e < y.e
  \/ x.e = y.e /\ (IF lines_desc THEN x.i > y.i ELSE x.i < y.i)

RECURSIVE ledger_order(_, _, _)
ledger_order(store, S, lines_desc) ==
  IF S = {} THEN <<>>
  ELSE LET x == CHOOSE r \in S : \A y \in S \ {r} : ledger_before(store, r, y, lines_desc)
       IN <<x>> \o ledger_order(store, S \ {x}, lines_desc)

\* running_balance after the first k rows
running_balance(rows, k) ==
  SumDebit(SubSeq(rows, 1, k)) - SumCredit(SubSeq(rows, 1, k))

\* variant: the status filter is missing
ledger_rows_of_any_status(store, org, account_id, from_date, to_date) ==
  { r \in UNION { { [e |-> e, i |-> i] : i \in DOMAIN store[e].lines } :
                  e \in DOMAIN store } :
      /\ store[r.e].lines[r.i].account_id = account_id
      /\ store[r.e].organization_id = org
      /\ from_date # NoDate => store[r.e].entry_date >= from_date
      /\ to_date # NoDate => store[r.e].entry_date <= to_date }

\* the rows the query of get_general_ledger selects from the journal `store`,
\* as (entry, line)
ledger_rows(store, org, account_id, from_date, to_date) ==
  { r \in UNION { { [e |-> e, i |-> i] : i \in DOMAIN store[e].lines } :
                  e \in DOMAIN store } :
      /\ store[r.e].lines[r.i].account_id = account_id
      /\ store[r.e].organization_id = org
      /\ store[r.e].status = "posted"
      /\ from_date # NoDate => store[r.e].entry_date >= from_date
      /\ to_date # NoDate => store[r.e].entry_date <= to_date }

\* get_general_ledger over the accounts `table` and the journal `store`
general_ledger_over(table, store, org, account_id, from_date, to_date, lines_desc) ==
  IF account_id \notin DOMAIN table \/ table[account_id].organization_id # org
    THEN [result |-> "NotFound", entries |-> <<>>, closing_balance |-> 0]
  ELSE LET order == ledger_order(store,
                                 ledger_rows(store, org, account_id, from_date, to_date),
                                 lines_desc)
           rows == [k \in DOMAIN order |->
                      [entry_id |-> order[k].e,
                       line |-> order[k].i,
                       date |-> store[order[k].e].entry_date,
                       debit |-> store[order[k].e].lines[order[k].i].debit,
                       credit |-> store[order[k].e].lines[order[k].i].credit]]
       IN [result |-> "ok",
           entries |-> [k \in DOMAIN rows |->
                          [entry_id |-> rows[k].entry_id,
                           line |-> rows[k].line,
                           date |-> rows[k].date,
                           debit |-> rows[k].debit,
                           credit |-> rows[k].credit,
                           balance |-> running_balance(rows, k)]],
           closing_balance |-> running_balance(rows, Len(rows))]

get_general_ledger(org, account_id, from_date, to_date, lines_desc) ==
  general_ledger_over(accounts, entries, org, account_id, from_date, to_date, lines_desc)

\* --------------------------------------------------------- specifications
Next ==
  \/ \E org \in Orgs, d \in Dates, raw \in Requests : create_journal_entry(org, d, raw)
  \/ \E w \in Workers, user \in Users, e \in EntryIds : VoidBegin(w, user, e)
  \/ \E w \in Workers : VoidFinish(w)
  \/ \E w \in Workers : VoidAbort(w)
  \/ Tick

Spec == Init /\ [][Next]_vars

NextLock ==
  \/ \E w \in Workers, user \in Users, y \in Years : LockBegin(w, user, y)
  \/ \E w \in Workers : LockCommit(w)
  \/ \E org \in Orgs, d \in Dates, raw \in Requests :
       Len(entries) < MaxPostsUnderLock /\ create_journal_entry(org, d, raw)

SpecLock == Init /\ [][NextLock]_vars

\* voids of entries of years that are being locked, as the days pass; the lock
\* requests are served one at a time
NextVoidLocked ==
  \/ \E org \in Orgs, d \in Dates, raw \in Requests :
       Len(entries) < MaxPostsUnderLock /\ create_journal_entry(org, d, raw)
  \/ \E w \in Workers, user \in Users, y \in Years :
       (\A v \in Workers : workers[v].pc # "lock_commit") /\ LockBegin(w, user, y)
  \/ \E w \in Workers : LockCommit(w)
  \/ \E w \in Workers, user \in Users, e \in EntryIds : VoidBegin(w, user, e)
  \/ \E w \in Workers : VoidFinish(w)
  \/ \E w \in Workers : VoidAbort(w)
  \/ Tick

SpecVoidLocked == Init /\ [][NextVoidLocked]_vars

\* posts against a chart whose accounts are being deactivated
NextDeactivate ==
  \/ \E org \in Orgs, a \in AccountIds \cup {UnknownAccountId} : deactivate_account(org, a)
  \/ \E org \in Orgs, d \in Dates, raw \in Requests :
       Len(entries) < MaxPostsUnderLock /\ create_journal_entry(org, d, raw)

SpecDeactivate == Init /\ [][NextDeactivate]_vars

\* the chart of accounts: seeding, custom accounts, deactivation
NextCoA ==
  \/ \E org \in Orgs : seed_default_accounts(org)
  \/ \E org \in Orgs, code \in CoACodes, parent_id \in CoAParents :
       /\ Cardinality(CustomAccounts) < Len(InitialAccounts) + MaxCustomAccounts
       /\ create_account(org, code, "Custom", "asset", "current_asset", parent_id)
  \/ \E org \in Orgs, a \in AccountIds \cup {UnknownAccountId} : deactivate_account(org, a)

SpecCoA == Init /\ [][NextCoA]_vars

\* posts and locks of a year served side by side
NextPostLock ==
  \/ \E w \in Workers, org \in Orgs, d \in Dates, raw \in Requests :
       Len(entries) < MaxPostsUnderLock /\ PostBegin(w, org, d, raw)
  \/ \E w \in Workers : PostCommit(w)
  \/ \E w \in Workers, user \in Users, y \in Years : LockBegin(w, user, y)
  \/ \E w \in Workers : LockCommit(w)

SpecPostLock == Init /\ [][NextPostLock]_vars

\* voids of entries whose accounts are being deactivated and whose tenant's
\* years are being locked; the lock and void requests are served one at a time
NextVoidRejected ==
  \/ \E org \in Orgs, d \in Dates, raw \in Requests :
       Len(entries) < MaxPostsUnderLock /\ create_journal_entry(org, d, raw)
  \/ \E org \in Orgs, a \in AccountIds : deactivate_account(org, a)
  \/ \E w \in Workers, user \in Users, y \in Years :
       (\A v \in Workers : workers[v].pc = "idle") /\ LockBegin(w, user, y)
  \/ \E w \in Workers : LockCommit(w)
  \/ \E w \in Workers, user \in Users, e \in EntryIds :
       (\A v \in Workers : workers[v].pc = "idle") /\ VoidBegin(w, user, e)
  \/ \E w \in Workers : VoidFinish(w)
  \/ \E w \in Workers : VoidAbort(w)

SpecVoidRejected == Init /\ [][NextVoidRejected]_vars

\* requests of two tenants: lines on accounts of t1, lines on the account of
\* t2, and lines on accounts of both
TenantRequests ==
  { <<LineSpecs[1], LineSpecs[2]>>,
    <<[account_id |-> 3, debit |-> Cent, credit |-> 0], LineSpecs[6]>>,
    <<LineSpecs[1], LineSpecs[6]>> }

\* one user of each tenant; the account of t2, the first account a seed or a
\* create_account adds, and an id no account has
TenantUsers == {"u1", "v1"}
TenantAccounts == {3, Len(InitialAccounts) + 1, UnknownAccountId}

\* create_account: a code of the catalogue and a code in use; no parent and the
\* account of t2
TenantCodes == {"1000", "9001"}
TenantParents == {NoId, 3}

ManualEntries(org) ==
  {e \in DOMAIN entries : entries[e].organization_id = org /\ entries[e].source = "manual"}

\* every operation, called by users of two tenants: each tenant posts up to
\* MaxTenantPosts entries dated today, voids, and locks the year of today; the
\* chart grows once, by a seed or by a create_account; the lock and void
\* requests are served one at a time
NextTenants ==
  \/ \E org \in Orgs, raw \in TenantRequests :
       /\ Cardinality(ManualEntries(org)) < MaxTenantPosts
       /\ create_journal_entry(org, today, raw)
  \/ \E w \in Workers, user \in TenantUsers, e \in EntryIds :
       (\A v \in Workers : workers[v].pc = "idle") /\ VoidBegin(w, user, e)
  \/ \E w \in Workers : VoidFinish(w)
  \/ \E w \in Workers, user \in TenantUsers :
       (\A v \in Workers : workers[v].pc = "idle") /\ LockBegin(w, user, YearOf(today))
  \/ \E w \in Workers : LockCommit(w)
  \/ \E org \in Orgs :
       Len(accounts) = Len(InitialAccounts) /\ seed_default_accounts(org)
  \/ \E org \in Orgs, code \in TenantCodes, parent_id \in TenantParents :
       /\ Len(accounts) = Len(InitialAccounts)
       /\ create_account(org, code, "Custom", "asset", "current_asset", parent_id)
  \/ \E org \in Orgs, a \in TenantAccounts : deactivate_account(org, a)

SpecTenants == Init /\ [][NextTenants]_vars

\* ------------------------------------------------------------------ claims
AllLineSpecsOK(raw) == \A i \in DOMAIN raw : LineSpecOK(raw[i].debit, raw[i].credit)
OnePositive(l) == (l.debit > 0) # (l.credit > 0)
BothOrNeither(l) == (l.debit > 0) = (l.credit > 0)
Last(seq) == seq[Len(seq)]

\* C1: a post of a non-empty list of lines that each have exactly one positive
\* side, with sum(debit) = sum(credit) > 0, an open year and active accounts of
\* the tenant, succeeds, adds exactly one posted entry, and the stored lines
\* have the same total debit and total credit as the input.
C1_BalancedPostStoresSameTotals ==
  [][\A org \in Orgs, d \in Dates, raw \in Requests :
       ( /\ raw # <<>>
         /\ \A i \in DOMAIN raw : OnePositive(raw[i])
         /\ SumDebit(raw) = SumCredit(raw)
         /\ SumDebit(raw) > 0
         /\ assert_year_open(org, YearOf(d))
         /\ validate_accounts(org, raw) = {}
         /\ create_journal_entry(org, d, raw) )
       => ( /\ response' = Response("post", "ok")
            /\ Len(entries') = Len(entries) + 1
            /\ SubSeq(entries', 1, Len(entries)) = entries
            /\ Last(entries').status = "posted"
            /\ SumDebit(Last(entries').lines) = SumDebit(raw)
            /\ SumCredit(Last(entries').lines) = SumCredit(raw) )]_vars

\* the requests post_journal_entry receives (every LineSpec was constructed)
\* whose totals differ, and those whose totals are both zero
UnbalancedRequests ==
  {raw \in Requests : AllLineSpecsOK(raw) /\ SumDebit(raw) # SumCredit(raw)}
ZeroRequests ==
  {raw \in Requests : AllLineSpecsOK(raw) /\ SumDebit(raw) = 0 /\ SumCredit(raw) = 0}

\* C2: a post with sum(debit) # sum(credit) fails with Unbalanced and one with
\* sum(debit) = sum(credit) = 0 fails with EmptyEntry; a call that fails with
\* either error, directly or for the reversal built by void, leaves every
\* entry and line of the store as it was.
C2_UnbalancedAndEmptyRejected ==
  [][/\ response'.op = "post" =>
          \A raw \in UnbalancedRequests :
            (\E org \in Orgs, d \in Dates : create_journal_entry(org, d, raw))
              => response'.result = "Unbalanced"
     /\ response'.op = "post" =>
          \A raw \in ZeroRequests :
            (\E org \in Orgs, d \in Dates : create_journal_entry(org, d, raw))
              => response'.result = "EmptyEntry"
     /\ response'.result \in {"Unbalanced", "EmptyEntry"} => entries' = entries]_vars

C2_Witness ==
  /\ response = Response("post", "EmptyEntry")
  /\ entries # <<>>

\* C3: every stored line has exactly one of (debit, credit) strictly positive
\* and the other exactly zero, and a request with a line whose debit and
\* credit are both positive or neither positive is rejected as MalformedLine.
C3_MalformedLinesRejected ==
  [][/\ \A e \in DOMAIN entries' : \A i \in DOMAIN entries'[e].lines :
          ck_journal_lines_debit_or_credit(entries'[e].lines[i])
     /\ \A org \in Orgs, d \in Dates, raw \in Requests :
          ( /\ \E i \in DOMAIN raw : BothOrNeither(raw[i])
            /\ create_journal_entry(org, d, raw) )
          => (response' = Response("post", "MalformedLine") /\ entries' = entries)]_vars

\* C4: for every tenant and every as-of date the trial balance has equal grand
\* totals of debit and credit.
C4_TrialBalanceBalanced ==
  \A org \in Orgs, as_of_date \in Dates : get_trial_balance(org, as_of_date).is_balanced

C6_VoidGuards ==
  [][response'.op = "void" =>
       \A w \in Workers, user \in Users, e \in EntryIds :
         VoidBegin(w, user, e)
         => /\ (e \notin DOMAIN entries \/ entries[e].organization_id # OrgOf(user))
                 => (response' = Response("void", "NotFound")
                     /\ entries' = entries /\ workers' = workers)
            /\ (e \in DOMAIN entries /\ entries[e].organization_id = OrgOf(user)
                  /\ entries[e].status # "posted")
                 => (response' = Response("void", "InvalidState")
                     /\ entries' = entries /\ workers' = workers)]_vars

C6_Witness ==
  /\ response = Response("void", "InvalidState")
  /\ \E e \in DOMAIN entries : entries[e].status = "voided"

\* C7: in no state of the store is there a posted reversal (source void, source
\* id E) while E is still posted with reversed_by unset.
C7_ReversalAndMarkTogether ==
  \A e, r \in DOMAIN entries :
    ~ ( /\ entries[r].status = "posted"
        /\ entries[r].source = "void"
        /\ entries[r].source_id = e
        /\ entries[e].status = "posted"
        /\ entries[e].reversed_by = NoId )

YearLocked(org, year) ==
  \E fy \in financial_years :
    fy.organization_id = org /\ fy.year = year /\ fy.is_locked

\* the requests that pass the balance check of post_journal_entry
BalancedRequests ==
  {raw \in Requests :
     AllLineSpecsOK(raw) /\ SumDebit(raw) = SumCredit(raw) /\ SumDebit(raw) # 0}

\* C8: a year locked for a tenant stays locked, and every post of that tenant
\* dated in a locked year whose lines are balanced and non-empty fails with
\* PeriodLocked and leaves the store as it was.
C8_LockedYearRejectsPosts ==
  /\ [](\A org \in Orgs, d \in Dates, raw \in BalancedRequests :
          YearLocked(org, YearOf(d))
          => post_journal_entry(org, d, raw, "manual", NoId)
               = [result |-> "PeriodLocked", missing |-> {}, entries |-> entries])
  /\ [][/\ \A org \in Orgs, y \in Years : YearLocked(org, y) => YearLocked(org, y)'
        /\ response' = Response("post", "PeriodLocked") => entries' = entries]_vars

C8_Witness ==
  /\ response = Response("post", "PeriodLocked")
  /\ \E org \in Orgs, y \in Years : YearLocked(org, y)

\* C9: lock_financial_year on a (tenant, year) that is already locked fails with
\* AlreadyLocked and leaves every lock record as it was; a call that commits
\* while the (tenant, year) has no record creates the record, locked, with the
\* caller and the time of the call.
C9_LockTwiceRejected ==
  [][response'.op = "lock" =>
       /\ \A w \in Workers, user \in Users, y \in Years :
            (YearLocked(OrgOf(user), y) /\ LockBegin(w, user, y))
            => (response' = Response("lock", "AlreadyLocked")
                /\ financial_years' = financial_years /\ workers' = workers)
       /\ \A w \in Workers :
            ( /\ LockCommit(w)
              /\ ~ \E fy \in financial_years :
                     fy.organization_id = workers[w].org /\ fy.year = workers[w].year )
            => ( /\ response' = Response("lock", "ok")
                 /\ financial_years' = financial_years \cup
                      { [organization_id |-> workers[w].org, year |-> workers[w].year,
                         is_locked |-> TRUE, locked_by |-> workers[w].locked_by,
                         locked_at |-> today] } )]_vars

C9_Witness ==
  /\ response = Response("lock", "AlreadyLocked")
  /\ financial_years # {}

\* C10: of two concurrent lock_financial_year calls for one (tenant, year) the
\* loser is answered AlreadyLocked, never a storage error, and at most one
\* record per (tenant, year) exists.
C10_LockRaceLoserSeesAlreadyLocked ==
  /\ response.op = "lock" => response.result \in {"selected", "ok", "AlreadyLocked"}
  /\ uq_financial_years_org_year(financial_years)

\* the account ids of a request that do not exist, are inactive or belong to
\* another tenant
Offending(org, raw) ==
  {raw[i].account_id : i \in {j \in DOMAIN raw :
     \/ raw[j].account_id \notin DOMAIN accounts
     \/ accounts[raw[j].account_id].organization_id # org
     \/ ~accounts[raw[j].account_id].is_active}}

ConstructedRequests == {raw \in Requests : AllLineSpecsOK(raw)}

\* C11 as stated: every post with a line on an account that does not exist, is
\* inactive or belongs to another tenant fails with UnknownAccount listing
\* exactly the offending ids, and writes nothing.
C11_AnyOffendingPostIsUnknownAccount ==
  \A org \in Orgs, d \in Dates, raw \in ConstructedRequests :
    Offending(org, raw) # {}
    => post_journal_entry(org, d, raw, "manual", NoId)
         = [result |-> "UnknownAccount", missing |-> Offending(org, raw),
            entries |-> entries]

\* C11 amended: a post that passes the balance check and the period lock and has
\* a line on an account that does not exist, is inactive or belongs to another
\* tenant fails with UnknownAccount listing exactly the offending ids (all of
\* them), and writes nothing.
C11_OffendingPostIsUnknownAccount ==
  /\ [](\A org \in Orgs, d \in Dates, raw \in BalancedRequests :
          (assert_year_open(org, YearOf(d)) /\ Offending(org, raw) # {})
          => post_journal_entry(org, d, raw, "manual", NoId)
               = [result |-> "UnknownAccount", missing |-> Offending(org, raw),
                  entries |-> entries])
  /\ [][response' = Response("post", "UnknownAccount") => entries' = entries]_vars

C11_Witness ==
  /\ response = Response("post", "UnknownAccount")
  /\ \E a \in AccountIds : ~accounts[a].is_active
  /\ \E raw \in BalancedRequests : Cardinality(Offending("t1", raw)) >= 2

\* the lines of account a that a report of tenant org as of a date must count:
\* those of posted entries of the tenant dated on or before it
PostedLines(org, a, as_of_date) ==
  { r \in UNION { { [e |-> e, i |-> i] : i \in DOMAIN entries[e].lines } :
                  e \in DOMAIN entries } :
      /\ entries[r.e].lines[r.i].account_id = a
      /\ entries[r.e].status = "posted"
      /\ entries[r.e].organization_id = org
      /\ entries[r.e].entry_date <= as_of_date }

\* C12: for every active account of the tenant the trial balance as of a date
\* reports the sums of debit and credit over exactly the lines of the account
\* whose entry is posted, of the tenant and dated on or before that date, and
\* net = total debit - total credit.
C12_TrialBalanceCountsPostedLinesOnly ==
  \A org \in Orgs, as_of_date \in Dates :
    LET tb == get_trial_balance(org, as_of_date)
    IN \A a \in DOMAIN tb.net_balance :
         LET S == PostedLines(org, a, as_of_date)
         IN /\ tb.total_debit[a] = SumOver(S, [r \in S |-> entries[r.e].lines[r.i].debit], 0)
            /\ tb.total_credit[a] = SumOver(S, [r \in S |-> entries[r.e].lines[r.i].credit], 0)
            /\ tb.net_balance[a] = tb.total_debit[a] - tb.total_credit[a]

\* C13: for every account of the tenant the closing balance of the general
\* ledger with no from/to date equals the account's net in the trial balance.
C13_LedgerClosingEqualsTrialBalanceNet ==
  \A org \in Orgs, lines_desc \in BOOLEAN :
    LET tb == get_trial_balance(org, today)
    IN \A a \in DOMAIN tb.net_balance :
         get_general_ledger(org, a, NoDate, NoDate, lines_desc).closing_balance
           = tb.net_balance[a]

\* C14: when the void of an entry E completes, the trial balance shows for every
\* account touched by E the net it shows for the journal without E and what
\* reverses E (the net before E was posted); when no other entry touches the
\* account, the net is zero.
C14_VoidRestoresNet ==
  [][\A w \in Workers :
       (response' = Response("void", "ok") /\ workers'[w] # workers[w])
       => LET o == workers[w].original
              r == workers[w].reversal
              org == entries[o].organization_id
              reversals == {e \in DOMAIN entries' :
                              entries'[e].source = "void" /\ entries'[e].source_id = o}
              without == [e \in DOMAIN entries' |->
                            IF e \in reversals \cup {o}
                              THEN [entries'[e] EXCEPT !.lines = <<>>]
                              ELSE entries'[e]]
          IN \A as_of_date \in {d \in Dates : d >= today} :
               \A i \in DOMAIN entries[o].lines :
                 LET a == entries[o].lines[i].account_id
                 IN /\ trial_balance_query(entries', org, as_of_date).net_balance[a]
                       = trial_balance_query(without, org, as_of_date).net_balance[a]
                    /\ (\A e \in DOMAIN entries' \ (reversals \cup {o}) :
                          \A j \in DOMAIN entries'[e].lines :
                            entries'[e].lines[j].account_id # a)
                       => trial_balance_query(entries', org, as_of_date).net_balance[a] = 0]_vars

DateOrNone == Dates \cup {NoDate}

InWindow(d, from_date, to_date) ==
  /\ from_date # NoDate => d >= from_date
  /\ to_date # NoDate => d <= to_date

\* C15: the general ledger of an account of the tenant returns exactly the lines
\* of the account whose entry is posted, of the tenant and dated within
\* [from, to], each once, ordered by (entry date, creation order); the first
\* balance is debit - credit of the first line, each later balance is the
\* previous one plus debit - credit of its line, and the closing balance is the
\* last balance, or zero when no line is returned.
C15_GeneralLedgerRunningBalance ==
  \A org \in Orgs, a \in AccountIds, from_date \in DateOrNone, to_date \in DateOrNone,
     lines_desc \in BOOLEAN :
    accounts[a].organization_id = org
    => LET gl == get_general_ledger(org, a, from_date, to_date, lines_desc)
           rows == gl.entries
           n == Len(rows)
       IN /\ gl.result = "ok"
          /\ {<<rows[k].entry_id, rows[k].line>> : k \in 1 .. n}
               = {<<e, i>> \in (DOMAIN entries) \X (1 .. MaxLines) :
                    /\ i \in DOMAIN entries[e].lines
                    /\ entries[e].lines[i].account_id = a
                    /\ entries[e].status = "posted"
                    /\ entries[e].organization_id = org
                    /\ InWindow(entries[e].entry_date, from_date, to_date)}
          /\ \A k, l \in 1 .. n :
               k < l => /\ <<rows[k].entry_id, rows[k].line>> # <<rows[l].entry_id, rows[l].line>>
                        /\ \/ rows[k].date < rows[l].date
                           \/ rows[k].date = rows[l].date /\ rows[k].entry_id <= rows[l].entry_id
          /\ \A k \in 1 .. n :
               /\ rows[k].date = entries[rows[k].entry_id].entry_date
               /\ rows[k].debit = entries[rows[k].entry_id].lines[rows[k].line].debit
               /\ rows[k].credit = entries[rows[k].entry_id].lines[rows[k].line].credit
               /\ rows[k].balance = (IF k = 1 THEN 0 ELSE rows[k - 1].balance)
                                      + rows[k].debit - rows[k].credit
          /\ gl.closing_balance = IF n = 0 THEN 0 ELSE rows[n].balance

C15_Witness ==
  \E a \in AccountIds :
    LET org == accounts[a].organization_id
        all == get_general_ledger(org, a, NoDate, NoDate, FALSE)
        late == get_general_ledger(org, a, MaxDate, NoDate, FALSE)
    IN /\ Len(all.entries) >= 2
       /\ Len(late.entries) = 1
       /\ all.closing_balance # 0
       /\ \E e \in DOMAIN entries :
            /\ entries[e].status = "voided"
            /\ \E i \in DOMAIN entries[e].lines : entries[e].lines[i].account_id = a

DefaultCodes == {DEFAULT_ACCOUNTS[k].code : k \in DOMAIN DEFAULT_ACCOUNTS}

\* C16: from any chart of the tenant, a call of seed_default_accounts succeeds
\* and leaves exactly one account of the tenant per default code, changes no
\* account that existed before it (also those that already used a default
\* code), and a further call adds no account and changes none.
C16_SeedIdempotent ==
  [][response'.op = "seed" =>
       \A org \in Orgs :
         seed_default_accounts(org)
         => /\ response' = Response("seed", "ok")
            /\ \A code \in DefaultCodes :
                 Cardinality(ids_by_code(accounts', org, code)) = 1
            /\ Len(accounts') >= Len(accounts)
            /\ SubSeq(accounts', 1, Len(accounts)) = accounts
            /\ seeded_accounts(accounts', org).ok
            /\ seeded_accounts(accounts', org).table = accounts']_vars

C16_Witness ==
  /\ response = Response("seed", "ok")
  /\ \E a, b \in AccountIds :
       /\ accounts[a].organization_id = accounts[b].organization_id
       /\ accounts[a].code \in DefaultCodes
       /\ ~accounts[a].is_system
       /\ ~accounts[a].is_active
       /\ accounts[b].is_system
       /\ accounts[b].parent_id = a

\* C17: every entry is stored as posted when it is created; the only status
\* change is posted to voided, made by void_entry; no entry leaves voided.
C17_StatusPostedThenVoided ==
  [][/\ DOMAIN entries \subseteq DOMAIN entries'
     /\ \A e \in DOMAIN entries' \ DOMAIN entries : entries'[e].status = "posted"
     /\ \A e \in DOMAIN entries :
          /\ entries[e].status = "voided" => entries'[e].status = "voided"
          /\ entries'[e].status # entries[e].status
               => /\ entries[e].status = "posted"
                  /\ entries'[e].status = "voided"
                  /\ response' = Response("void", "ok")]_vars

C17_Witness ==
  \E e, f \in DOMAIN entries :
    /\ entries[e].status = "voided"
    /\ e < f
    /\ entries[f].source = "manual"
    /\ entries[f].status = "posted"

\* C18: no operation deletes an entry or changes, adds or removes lines of an
\* existing entry; a post and the reversal of a void append one entry and leave
\* the others as they were; marking the original changes only its status and
\* reversed_by.
C18_EntriesImmutable ==
  [][/\ Len(entries') >= Len(entries)
     /\ \A e \in DOMAIN entries :
          [entries'[e] EXCEPT !.status = entries[e].status,
                              !.reversed_by = entries[e].reversed_by] = entries[e]
     /\ (response'.op = "post" \/ response' = Response("void", "reversal_posted"))
          => /\ Len(entries') <= Len(entries) + 1
             /\ SubSeq(entries', 1, Len(entries)) = entries
     /\ response' = Response("void", "ok") => Len(entries') = Len(entries)]_vars

C18_Witness ==
  \E o, r \in DOMAIN entries :
    /\ entries[o].status = "voided"
    /\ entries[o].reversed_by = r
    /\ entries[o].entry_date < entries[r].entry_date
    /\ entries[o].lines # <<>>

\* C19: a void of a posted entry E of the tenant whose own year is locked
\* succeeds when the year of today is not locked and E's accounts are active;
\* the reversal is dated today and its fiscal year is today's year.
C19_VoidInLockedYear ==
  [][response'.op = "void" =>
       \A w \in Workers, user \in Users, e \in DOMAIN entries :
         ( /\ entries[e].organization_id = OrgOf(user)
           /\ entries[e].status = "posted"
           /\ YearLocked(OrgOf(user), entries[e].fiscal_year)
           /\ ~YearLocked(OrgOf(user), YearOf(today))
           /\ validate_accounts(OrgOf(user), entries[e].lines) = {}
           /\ VoidBegin(w, user, e) )
         => /\ response' = Response("void", "reversal_posted")
            /\ Len(entries') = Len(entries) + 1
            /\ Last(entries').source_id = e
            /\ Last(entries').entry_date = today
            /\ Last(entries').fiscal_year = YearOf(today)]_vars

\* C20: create_account with a code an account of the tenant already uses (and a
\* parent that is absent or of the tenant) fails with Conflict and adds no
\* account; (tenant, code) is unique in every state.
C20_DuplicateCodeIsConflict ==
  /\ [] uq_accounts_org_code(accounts)
  /\ [][response'.op = "create_account" =>
          \A org \in Orgs, code \in CoACodes, parent_id \in CoAParents :
            ( /\ code \in existing_codes(accounts, org)
              /\ parent_id # NoId => accounts[parent_id].organization_id = org
              /\ create_account(org, code, "Custom", "asset", "current_asset", parent_id) )
            => ( /\ response' = Response("create_account", "Conflict")
                 /\ accounts' = accounts )]_vars

C22_DeactivateInactiveFails ==
  [][response'.op = "deactivate" =>
       \A org \in Orgs, a \in AccountIds :
         ( /\ accounts[a].organization_id = org
           /\ ~accounts[a].is_system
           /\ deactivate_account(org, a) )
         => IF accounts[a].is_active
              THEN /\ response' = Response("deactivate", "ok")
                   /\ accounts' = [accounts EXCEPT ![a].is_active = FALSE]
                   /\ entries' = entries
              ELSE /\ response'.result # "ok"
                   /\ accounts' = accounts
                   /\ entries' = entries]_vars

\* C23: no entry dated in year Y is committed in a state where year Y is
\* locked for its tenant, also when the post and the lock of Y are served
\* side by side.
C23_NoCommitAfterLock ==
  [][\A e \in DOMAIN entries' \ DOMAIN entries :
       ~YearLocked(entries'[e].organization_id, YearOf(entries'[e].entry_date))]_vars

\* the reversal entries of entry e
ReversalsOf(e) ==
  {r \in DOMAIN entries : entries[r].source = "void" /\ entries[r].source_id = e}

\* C24: every entry has at most one reversal entry (source void, source id
\* the entry's id), also when two void_entry calls on it are served side by
\* side.
C24_AtMostOneReversal ==
  \A e \in DOMAIN entries : Cardinality(ReversalsOf(e)) <= 1

\* C25: a void of a posted entry E of the tenant, called when the year of
\* today is locked for the tenant or an account of a line of E is inactive,
\* fails: E stays posted with reversed_by unset, no entry or line is added and
\* no request is left in flight. When E's stored lines balance, the error is
\* PeriodLocked if the year of today is locked, and UnknownAccount otherwise.
C25_RejectedReversalFailsVoid ==
  [][response'.op = "void" =>
       \A w \in Workers, user \in Users, e \in DOMAIN entries :
         LET org == OrgOf(user)
             locked == YearLocked(org, YearOf(today))
             inactive == \E i \in DOMAIN entries[e].lines :
                           ~accounts[entries[e].lines[i].account_id].is_active
         IN ( /\ entries[e].organization_id = org
              /\ entries[e].status = "posted"
              /\ locked \/ inactive
              /\ VoidBegin(w, user, e) )
            => /\ response'.result \notin {"ok", "reversal_posted"}
               /\ entries' = entries
               /\ entries'[e].status = "posted"
               /\ entries'[e].reversed_by = NoId
               /\ workers' = workers
               /\ (SumDebit(entries[e].lines) = SumCredit(entries[e].lines))
                    => response'.result =
                         IF locked THEN "PeriodLocked" ELSE "UnknownAccount"]_vars

C25_Witness ==
  /\ response = Response("void", "UnknownAccount")
  /\ \E fy \in financial_years : fy.is_locked
  /\ \E e \in DOMAIN entries :
       /\ entries[e].status = "posted"
       /\ entries[e].reversed_by = NoId
       /\ \E i \in DOMAIN entries[e].lines :
            ~accounts[entries[e].lines[i].account_id].is_active

\* C26: in every state in which each stored entry has equal debit and credit
\* totals, the trial balance of every tenant at every date reports
\* is_balanced, also after accounts that carry posted lines were deactivated.
C26_TrialBalanceBalancedAfterDeactivate ==
  (\A e \in DOMAIN entries : SumDebit(entries[e].lines) = SumCredit(entries[e].lines))
    => \A org \in Orgs, d \in Dates : get_trial_balance(org, d).is_balanced

TenantView(table, store, years, org) ==
  LET own == {a \in DOMAIN table : table[a].organization_id = org}
  IN [entries |-> {<<e, store[e]>> :
                     e \in {x \in DOMAIN store : store[x].organization_id = org}},
      accounts |-> {<<a, table[a]>> : a \in own},
      financial_years |-> {fy \in years : fy.organization_id = org},
      trial_balance |-> [d \in Dates |-> trial_balance_over(table, store, org, d)],
      general_ledger |-> [a \in own |-> [lines_desc \in BOOLEAN |->
                            general_ledger_over(table, store, org, a, NoDate, NoDate,
                                                lines_desc)]]]

\* the step is an operation called for tenant org
ActsFor(org) ==
  \/ /\ response'.op = "post"
     /\ \E raw \in TenantRequests : create_journal_entry(org, today, raw)
  \/ /\ response'.op = "void"
     /\ \/ \E w \in Workers, user \in TenantUsers, e \in EntryIds :
             OrgOf(user) = org /\ VoidBegin(w, user, e)
        \/ \E w \in Workers :
             workers[w].pc = "void_mark" /\ workers[w].org = org /\ VoidFinish(w)
  \/ /\ response'.op = "lock"
     /\ \/ \E w \in Workers, user \in TenantUsers, y \in Years :
             OrgOf(user) = org /\ LockBegin(w, user, y)
        \/ \E w \in Workers :
             workers[w].pc = "lock_commit" /\ workers[w].org = org /\ LockCommit(w)
  \/ /\ response'.op = "seed"
     /\ seed_default_accounts(org)
  \/ /\ response'.op = "create_account"
     /\ \E code \in TenantCodes, parent_id \in TenantParents :
          create_account(org, code, "Custom", "asset", "current_asset", parent_id)
  \/ /\ response'.op = "deactivate"
     /\ \E a \in TenantAccounts : deactivate_account(org, a)

\* C28: an operation called for a tenant leaves the entries, lines, accounts
\* and year rows of every other tenant as they were, and with them the
\* results of the other tenant's lock check, trial balance and general
\* ledger (a step that stores nothing leaves them as they were); every stored
\* line is on an account of its entry's tenant.
C28_TenantIsolation ==
  /\ [] \A e \in DOMAIN entries : \A i \in DOMAIN entries[e].lines :
          /\ entries[e].lines[i].account_id \in AccountIds
          /\ accounts[entries[e].lines[i].account_id].organization_id
               = entries[e].organization_id
  /\ [][\A org \in Orgs :
          ActsFor(org)
          => \A other \in Orgs \ {org} :
               /\ \/ UNCHANGED <<accounts, entries, financial_years>>
                  \/ TenantView(accounts', entries', financial_years', other)
                       = TenantView(accounts, entries, financial_years, other)
               /\ \A y \in Years :
                    assert_year_open(other, y)' = assert_year_open(other, y)]_vars

C28_Witness ==
  /\ response = Response("post", "ok")
  /\ Last(entries).organization_id = "t2"
  /\ YearLocked("t1", Last(entries).fiscal_year)
  /\ ManualEntries("t1") # {}

\* the entries of the catalogue that name a parent code
ChildSpecs == {k \in DOMAIN DEFAULT_ACCOUNTS : DEFAULT_ACCOUNTS[k].parent_code # NoCode}

\* C29: after a call of seed_default_accounts, every account the call created
\* for a catalogue entry that names a parent code has as parent_id the id of
\* the tenant's account with that parent code, whether the call created the
\* parent or found it.
C29_SeededParentsResolved ==
  [][response'.op = "seed" =>
       \A org \in Orgs :
         seed_default_accounts(org)
         => \A a \in DOMAIN accounts' \ DOMAIN accounts : \A k \in ChildSpecs :
              accounts'[a].code = DEFAULT_ACCOUNTS[k].code
              => /\ accounts'[a].parent_id # NoId
                 /\ accounts'[a].parent_id
                      \in ids_by_code(accounts', org, DEFAULT_ACCOUNTS[k].parent_code)]_vars

C29_Witness ==
  /\ response = Response("seed", "ok")
  /\ \E a, b, c, d \in AccountIds :
       /\ accounts[c].code = "1510" /\ accounts[c].parent_id = b
       /\ accounts[b].code = "1500" /\ accounts[b].parent_id = a
       /\ accounts[a].code = "1000" /\ accounts[a].is_system
       /\ accounts[b].is_system
       /\ accounts[d].organization_id # accounts[c].organization_id
       /\ accounts[d].code = "1510"
       /\ ~accounts[accounts[d].parent_id].is_system

\* the rules a request breaks, first to last in the order of the claim:
\* unequal totals, zero totals, a locked year, an offending account
EarliestViolation(org, entry_date, raw) ==
  IF SumDebit(raw) # SumCredit(raw) THEN "Unbalanced"
  ELSE IF SumDebit(raw) = 0 THEN "EmptyEntry"
  ELSE IF YearLocked(org, YearOf(entry_date)) THEN "PeriodLocked"
  ELSE IF Offending(org, raw) # {} THEN "UnknownAccount"
  ELSE "none"

\* C30: a post whose request breaks one or more of the rules fails with the
\* error of the first rule it breaks, in the order Unbalanced, EmptyEntry,
\* PeriodLocked, UnknownAccount, and writes nothing.
C30_ChecksInOrder ==
  /\ [] \A org \in Orgs, d \in Dates, raw \in ConstructedRequests :
          EarliestViolation(org, d, raw) # "none"
          => LET r == post_journal_entry(org, d, raw, "manual", NoId)
             IN /\ r.result = EarliestViolation(org, d, raw)
                /\ r.entries = entries
  /\ [][(/\ response'.op = "post"
          /\ response'.result \in {"Unbalanced", "EmptyEntry", "PeriodLocked",
                                    "UnknownAccount"})
          => UNCHANGED <<accounts, entries, financial_years>>]_vars

C30_Witness ==
  /\ response = Response("post", "PeriodLocked")
  /\ financial_years # {}
  /\ \A fy \in financial_years : fy.organization_id = "t2"
  /\ \A a \in AccountIds : accounts[a].organization_id = "t2" => a = 3
====
